---- MODULE Spec2Model ----
(***************************************************************************)
(* Authentication controller of the tourism backend                        *)
(* (src/src/controllers/auth.controller.ts): register, login, getProfile   *)
(* and updateProfile as request handlers over one user collection.         *)
(*                                                                         *)
(* register, login and updateProfile are cut at their awaits (the lookup,  *)
(* the password comparison, the save): one step runs from an await to the  *)
(* next, so that the steps of requests in flight interleave as the event   *)
(* loop lets them. A request in flight works on the document it loaded.    *)
(* getProfile has one await and is one step.                               *)
(* Every step records in `out` what it did and the response it sent.       *)
(*                                                                         *)
(* Guides controller (src/src/controllers/guides.controller.ts) over the   *)
(* in-memory array guidesStore: every handler is synchronous, one step     *)
(* each, and records in `gout` what it did and the response it sent.       *)
(***************************************************************************)
EXTENDS Integers, FiniteSets, Sequences, TLC

\* ------------------------------------------------------------------ bounds
\* Number of requests that can be in flight at the same time.
NumProcs == 2
\* Values the clock can return for `new Date()`.
MaxTime == 1
\* Number of guides the guide store can hold.
MaxGuides == 2

Procs == 1..NumProcs
Times == 1..MaxTime

\* ------------------------------------------------------------ input values
\* The emails a request can carry, and those among them that sign up.
Emails == {"a@b.com", "c@d.com"}
Registrants == {"a@b.com"}
Passwords == {"Passw0rd!", "wrong"}
\* The password a sign-up carries: a stored hash of any other password has
\* been put there by updateProfile.
RegisterPasswords == {"Passw0rd!"}
Names == {"B"}
\* A field that the request body does not carry (undefined / empty: falsy).
Absent == ""

\* The bodies of updateProfile: <<name, currentPassword, newPassword>>.
UpdateInputs ==
    {<<"B", Absent, Absent>>,
     <<Absent, "Passw0rd!", "wrong">>,
     <<"B", "Passw0rd!", "wrong">>,
     <<Absent, "Passw0rd!", "Passw0rd!">>,
     <<"B", "wrong", "Passw0rd!">>,
     <<"B", Absent, "wrong">>,
     <<Absent, "Passw0rd!", Absent>>}

VARIABLES
    store,   \* the user collection: a set of user documents
    tokens,  \* the session tokens issued so far (held by clients)
    pc,      \* pc[p]: the await at which request p stands
    req,     \* req[p]: the body of request p
    doc,     \* doc[p]: the user document request p loaded, as it changed it
    out,     \* the step just taken: handler, request and response sent
    guidesStore,  \* the array of guides, in insertion order
    nextId,       \* the value the id generator returns next
    gout          \* the guide step just taken: handler, request, response

vars == <<store, tokens, pc, req, doc, out>>
gvars == <<guidesStore, nextId, gout>>

\* ------------------------------------------------------------- documents
\* `null`: what a query returns when no document matches.
NullUser ==
    [id |-> 0, email |-> Absent, password |-> <<"bcrypt", Absent>>,
     name |-> Absent, role |-> Absent, isActive |-> FALSE, lastLogin |-> 0]

NoReq ==
    [email |-> Absent, password |-> Absent, name |-> Absent, role |-> Absent,
     userId |-> 0, currentPassword |-> Absent, newPassword |-> Absent]

NoData == [none |-> TRUE]
NoResp == [status |-> 0, success |-> FALSE, message |-> Absent, data |-> NoData]

\* ------------------------------------------------- User model and helpers
\* Pre-save hook: the password is stored as a one-way hash.
Hash(plain) == <<"bcrypt", plain>>

\* user.comparePassword(candidate)
comparePassword(user, candidate) == user.password = Hash(candidate)

\* toUserResponse(user): the sanitized representation.
toUserResponse(user) ==
    [id |-> user.id, email |-> user.email, name |-> user.name,
     role |-> user.role, isActive |-> user.isActive,
     lastLogin |-> user.lastLogin]

\* generateToken(userId, role)
generateToken(userId, role) == [userId |-> userId, role |-> role]

\* sendError(res, message, status)
sendError(message, status) ==
    [status |-> status, success |-> FALSE, message |-> message, data |-> NoData]

\* sendError(res, message, status, errors)
sendErrors(message, status, errors) ==
    [status |-> status, success |-> FALSE, message |-> message,
     data |-> NoData, errors |-> errors]

\* sendSuccess(res, data, status, message)
sendSuccess(data, status, message) ==
    [status |-> status, success |-> TRUE, message |-> message, data |-> data]

\* The document of collection `users` with the email / the identifier.
ByEmail(users, email) ==
    IF \E u \in users : u.email = email
    THEN CHOOSE u \in users : u.email = email
    ELSE NullUser

ById(users, userId) ==
    IF \E u \in users : u.id = userId
    THEN CHOOSE u \in users : u.id = userId
    ELSE NullUser

\* UserModel.findOne({ email }) / UserModel.findByEmail(email)
findByEmail(email) == ByEmail(store, email)

\* UserModel.findById(userId)
findById(userId) == ById(store, userId)

\* The unique index on email: an insert of a second document with the same
\* email is rejected with duplicate-key error 11000.
DuplicateKey(email) == \E u \in store : u.email = email

DuplicateKeyError == [name |-> "MongoServerError", code |-> 11000]

\* A schema validation error of the store, with its per-field messages.
ValidationError ==
    [name |-> "ValidationError",
     errors |-> [email |-> "Please provide a valid email"]]

\* Any other failure of the store or of the hasher.
OtherError == [name |-> "MongoNetworkError"]

\* The identifier the collection gives the next inserted document.
NewId == Cardinality(store) + 1

\* user.save() of a loaded document: only the modified paths are written,
\* to the stored document with the same identifier.
SaveUser(user, paths) ==
    {IF u.id = user.id
        THEN [f \in DOMAIN u |-> IF f \in paths THEN user[f] ELSE u[f]]
        ELSE u : u \in store}

\* --------------------------------------------------------------- register
\* The pre-check: an existing user with the email answers 409.
registerCheck(existingUser) ==
    IF existingUser # NullUser
    THEN sendError("Email already registered", 409)
    ELSE NoResp

\* new UserModel({ email, password, name, role: role || 'customer' }),
\* as it is stored (password hashed by the pre-save hook).
newUser(id, email, password, name, role) ==
    [id |-> id, email |-> email, password |-> Hash(password), name |-> name,
     role |-> IF role # Absent THEN role ELSE "customer",
     isActive |-> TRUE, lastLogin |-> 0]

\* The success response of register.
registerSuccess(user) ==
    sendSuccess([user |-> toUserResponse(user),
                 token |-> generateToken(user.id, user.role)],
                201, "Registration successful")

\* Object.keys(error.errors).map(field => ({ field, message }))
validationErrors(error) ==
    {[field |-> f, message |-> error.errors[f]] : f \in DOMAIN error.errors}

\* Mutation: the catch block without its duplicate-key branch.
registerCatch_NoDuplicateKey(error) ==
    IF error.name = "ValidationError"
    THEN sendErrors("Validation failed", 400, validationErrors(error))
    ELSE sendError("Registration failed", 500)

\* The catch block of register.
registerCatch(error) ==
    IF error.name = "ValidationError"
    THEN sendErrors("Validation failed", 400, validationErrors(error))
    ELSE IF "code" \in DOMAIN error /\ error.code = 11000
         THEN sendError("Email already registered", 409)
    ELSE sendError("Registration failed", 500)

\* ------------------------------------------------------------------ login
\* Mutation: an unknown email is answered with a message of its own.
loginLookup_UserNotFound(user) ==
    IF user = NullUser THEN sendError("User not found", 404)
    ELSE IF ~user.isActive THEN sendError("Account is deactivated", 403)
    ELSE NoResp

\* The checks of login on the result of the lookup; NoResp: it goes on.
loginLookup(user) ==
    IF user = NullUser THEN sendError("Invalid credentials", 401)
    ELSE IF ~user.isActive THEN sendError("Account is deactivated", 403)
    ELSE NoResp

\* The check of login on the result of comparePassword; NoResp: it goes on.
loginPassword(user, password) ==
    IF ~comparePassword(user, password)
    THEN sendError("Invalid credentials", 401)
    ELSE NoResp

\* Mutation: the token is issued with the default role.
loginSuccess_CustomerToken(user) ==
    sendSuccess([user |-> toUserResponse(user),
                 token |-> generateToken(user.id, "customer")],
                200, "Login successful")

\* Mutation: the loaded document is sent as it is.
loginSuccess_RawUser(user) ==
    sendSuccess([user |-> user,
                 token |-> generateToken(user.id, user.role)],
                200, "Login successful")

\* The success response of login.
loginSuccess(user) ==
    sendSuccess([user |-> toUserResponse(user),
                 token |-> generateToken(user.id, user.role)],
                200, "Login successful")

\* Mutation: the catch block of login answers with the error's own text.
loginCatch_LeaksError(error) == sendError(error.name, 500)

\* The catch block of login.
loginCatch(error) == sendError("Login failed", 500)

\* -------------------------------------------- getProfile / updateProfile
\* The catch block of getProfile.
getProfileCatch(error) == sendError("Failed to get profile", 500)

\* The catch block of updateProfile.
updateProfileCatch(error) == sendError("Failed to update profile", 500)

\* getAuthenticatedUser: the error it sends, NoResp when it returns the user.
getAuthenticatedUser(userId, user) ==
    IF userId = 0 THEN sendError("User not found in request", 401)
    ELSE IF user = NullUser THEN sendError("User not found", 404)
    ELSE NoResp

\* Mutation: getProfile without the check of the active flag.
getProfileRespond_NoActiveCheck(user) ==
    sendSuccess(toUserResponse(user), 200, Absent)

\* getProfile after the lookup: the active check and the response.
getProfileRespond(user) ==
    IF ~user.isActive THEN sendError("Account is deactivated", 403)
    ELSE sendSuccess(toUserResponse(user), 200, Absent)

\* Mutation: the supplied name is not assigned.
updateName_Ignored(user, name) == user

\* if (name) user.name = name
updateName(user, name) ==
    IF name # Absent THEN [user EXCEPT !.name = name] ELSE user

\* Mutation: the password branch is entered on newPassword alone.
passwordChangeRequested_NewOnly(currentPassword, newPassword) ==
    newPassword # Absent

\* The password branch is entered when both fields are supplied.
passwordChangeRequested(currentPassword, newPassword) ==
    newPassword # Absent /\ currentPassword # Absent

\* Mutation: the current password is not verified.
updatePasswordCheck_NoCheck(user, currentPassword, newPassword) == NoResp

\* The error of the password branch, NoResp when it does not reject.
updatePasswordCheck(user, currentPassword, newPassword) ==
    IF passwordChangeRequested(currentPassword, newPassword)
       /\ ~comparePassword(user, currentPassword)
    THEN sendError("Current password is incorrect", 400)
    ELSE NoResp

\* Mutation: the new password is not assigned.
updatePassword_Unchanged(user, currentPassword, newPassword) == user

\* user.password = newPassword (hashed by the pre-save hook on save)
updatePassword(user, currentPassword, newPassword) ==
    IF passwordChangeRequested(currentPassword, newPassword)
    THEN [user EXCEPT !.password = Hash(newPassword)]
    ELSE user

\* The paths of the document that updateProfile has assigned.
updatePaths(name, currentPassword, newPassword) ==
    (IF name # Absent THEN {"name"} ELSE {})
    \cup (IF passwordChangeRequested(currentPassword, newPassword)
          THEN {"password"} ELSE {})

\* The success response of updateProfile.
updateSuccess(user) ==
    sendSuccess(toUserResponse(user), 200, "Profile updated successfully")

\* ------------------------------------------------------------------ state
NoOut == [op |-> "none", req |-> NoReq, resp |-> NoResp]
NoGuideOut == [op |-> "none", req |-> [id |-> 0], resp |-> NoResp]

Init ==
    /\ store = {}
    /\ tokens = {}
    /\ pc = [p \in Procs |-> "idle"]
    /\ req = [p \in Procs |-> NoReq]
    /\ doc = [p \in Procs |-> NullUser]
    /\ out = NoOut
    /\ guidesStore = <<>>
    /\ nextId = 1
    /\ gout = NoGuideOut

\* register up to `await UserModel.findOne({ email })` and the pre-check.
RegisterFindOne(p, email, password, name, role) ==
    /\ pc[p] = "idle"
    /\ LET body == [NoReq EXCEPT !.email = email, !.password = password,
                                 !.name = name, !.role = role]
           r == registerCheck(findByEmail(email))
       IN /\ out' = [op |-> "RegisterFindOne", req |-> body, resp |-> r]
          /\ IF r # NoResp
             THEN UNCHANGED <<pc, req>>
             ELSE /\ pc' = [pc EXCEPT ![p] = "register_save"]
                  /\ req' = [req EXCEPT ![p] = body]
    /\ UNCHANGED <<store, tokens, doc>>
    /\ UNCHANGED gvars

\* register from `await user.save()` to its response.
RegisterSave(p) ==
    /\ pc[p] = "register_save"
    /\ LET user == newUser(NewId, req[p].email, req[p].password,
                           req[p].name, req[p].role)
       IN IF DuplicateKey(req[p].email)
          THEN /\ out' = [op |-> "RegisterSave", req |-> req[p],
                          resp |-> registerCatch(DuplicateKeyError)]
               /\ UNCHANGED <<store, tokens>>
          ELSE /\ store' = store \cup {user}
               /\ tokens' = tokens \cup {generateToken(user.id, user.role)}
               /\ out' = [op |-> "RegisterSave", req |-> req[p],
                          resp |-> registerSuccess(user)]
    /\ pc' = [pc EXCEPT ![p] = "idle"]
    /\ req' = [req EXCEPT ![p] = NoReq]
    /\ UNCHANGED doc
    /\ UNCHANGED gvars

\* The request of slot p is over: the slot is free again.
Done(p) ==
    /\ pc' = [pc EXCEPT ![p] = "idle"]
    /\ req' = [req EXCEPT ![p] = NoReq]
    /\ doc' = [doc EXCEPT ![p] = NullUser]

\* The request of slot p goes on to the await `next` with document `user`.
Await(p, next, body, user) ==
    /\ pc' = [pc EXCEPT ![p] = next]
    /\ req' = [req EXCEPT ![p] = body]
    /\ doc' = [doc EXCEPT ![p] = user]

\* login up to `await UserModel.findByEmail(email)` and the checks of its
\* result.
LoginFindByEmail(p, email, password) ==
    /\ pc[p] = "idle"
    /\ LET body == [NoReq EXCEPT !.email = email, !.password = password]
           user == findByEmail(email)
           r == loginLookup(user)
       IN /\ out' = [op |-> "LoginFindByEmail", req |-> body, resp |-> r]
          /\ IF r # NoResp
             THEN UNCHANGED <<pc, req, doc>>
             ELSE Await(p, "login_compare", body, user)
    /\ UNCHANGED <<store, tokens>>
    /\ UNCHANGED gvars

\* Mutation: login stamps and saves the last-login time before it looks at
\* the result of the password comparison.
LoginComparePassword_StampsFirst(p, now) ==
    /\ pc[p] = "login_compare"
    /\ LET r == loginPassword(doc[p], req[p].password)
           user == [doc[p] EXCEPT !.lastLogin = now]
       IN /\ out' = [op |-> "LoginComparePassword", req |-> req[p],
                     resp |-> r]
          /\ store' = SaveUser(user, {"lastLogin"})
          /\ IF r # NoResp
             THEN Done(p)
             ELSE Await(p, "login_save", req[p], user)
    /\ UNCHANGED tokens
    /\ UNCHANGED gvars

\* login from `await user.comparePassword(password)` to `await user.save()`:
\* the check of the comparison and user.lastLogin = new Date().
LoginComparePassword(p, now) ==
    /\ pc[p] = "login_compare"
    /\ LET r == loginPassword(doc[p], req[p].password)
           user == [doc[p] EXCEPT !.lastLogin = now]
       IN /\ out' = [op |-> "LoginComparePassword", req |-> req[p],
                     resp |-> r]
          /\ IF r # NoResp
             THEN Done(p)
             ELSE Await(p, "login_save", req[p], user)
    /\ UNCHANGED <<store, tokens>>
    /\ UNCHANGED gvars

\* login from `await user.save()` to its response.
LoginSave(p) ==
    /\ pc[p] = "login_save"
    /\ store' = SaveUser(doc[p], {"lastLogin"})
    /\ tokens' = tokens \cup {generateToken(doc[p].id, doc[p].role)}
    /\ out' = [op |-> "LoginSave", req |-> req[p],
               resp |-> loginSuccess(doc[p])]
    /\ Done(p)
    /\ UNCHANGED gvars

\* getProfile.
GetProfile(userId) ==
    LET body == [NoReq EXCEPT !.userId = userId]
        user == findById(userId)
        r == getAuthenticatedUser(userId, user)
    IN /\ out' = [op |-> "GetProfile", req |-> body,
                  resp |-> IF r # NoResp THEN r ELSE getProfileRespond(user)]
       /\ UNCHANGED <<store, tokens, pc, req, doc>>
       /\ UNCHANGED gvars

\* updateProfile up to the await in getAuthenticatedUser, its checks and
\* the assignment of the name; it goes on to the password comparison when
\* both passwords are supplied and to the save otherwise.
UpdateFindById(p, userId, name, currentPassword, newPassword) ==
    /\ pc[p] = "idle"
    /\ LET body == [NoReq EXCEPT !.userId = userId, !.name = name,
                                !.currentPassword = currentPassword,
                                !.newPassword = newPassword]
           user == findById(userId)
           r == getAuthenticatedUser(userId, user)
       IN /\ out' = [op |-> "UpdateFindById", req |-> body, resp |-> r]
          /\ IF r # NoResp
             THEN UNCHANGED <<pc, req, doc>>
             ELSE Await(p,
                        IF passwordChangeRequested(currentPassword,
                                                   newPassword)
                        THEN "update_compare" ELSE "update_save",
                        body, updateName(user, name))
    /\ UNCHANGED <<store, tokens>>
    /\ UNCHANGED gvars

\* updateProfile from `await user.comparePassword(currentPassword)` to
\* `await user.save()`: the check and user.password = newPassword.
UpdateComparePassword(p) ==
    /\ pc[p] = "update_compare"
    /\ LET r == updatePasswordCheck(doc[p], req[p].currentPassword,
                                   req[p].newPassword)
       IN /\ out' = [op |-> "UpdateComparePassword", req |-> req[p],
                     resp |-> r]
          /\ IF r # NoResp
             THEN Done(p)
             ELSE Await(p, "update_save", req[p],
                        updatePassword(doc[p], req[p].currentPassword,
                                       req[p].newPassword))
    /\ UNCHANGED <<store, tokens>>
    /\ UNCHANGED gvars

\* Mutation: the whole request body is saved with the document, a role
\* with it.
UpdateSave_MassAssign(p) ==
    /\ pc[p] = "update_save"
    /\ store' = SaveUser([doc[p] EXCEPT !.role = "admin"],
                         {"role"} \cup
                         updatePaths(req[p].name, req[p].currentPassword,
                                     req[p].newPassword))
    /\ out' = [op |-> "UpdateSave", req |-> req[p],
               resp |-> updateSuccess(doc[p])]
    /\ Done(p)
    /\ UNCHANGED tokens
    /\ UNCHANGED gvars

\* updateProfile from `await user.save()` to its response.
UpdateSave(p) ==
    /\ pc[p] = "update_save"
    /\ store' = SaveUser(doc[p],
                         updatePaths(req[p].name, req[p].currentPassword,
                                     req[p].newPassword))
    /\ out' = [op |-> "UpdateSave", req |-> req[p],
               resp |-> updateSuccess(doc[p])]
    /\ Done(p)
    /\ UNCHANGED tokens
    /\ UNCHANGED gvars

\* An administrator clears the active flag of a stored user.
Deactivate(id) ==
    /\ \E u \in store : u.id = id /\ u.isActive
    /\ store' = {IF u.id = id THEN [u EXCEPT !.isActive = FALSE] ELSE u
                 : u \in store}
    /\ out' = [NoOut EXCEPT !.op = "Deactivate"]
    /\ UNCHANGED <<tokens, pc, req, doc>>
    /\ UNCHANGED gvars

\* ---------------------------------------------- failing store and hasher
\* What a step records when the await `at` threw `error`.
Thrown(name, body, at, error, response) ==
    [op |-> name, req |-> body, resp |-> response, fault |-> at,
     error |-> error]

\* register: `await UserModel.findOne` throws.
RegisterFindOneFails(p, email, password, name, role, error) ==
    /\ pc[p] = "idle"
    /\ out' = Thrown("RegisterFindOne",
                     [NoReq EXCEPT !.email = email, !.password = password,
                                   !.name = name, !.role = role],
                     "findOne", error, registerCatch(error))
    /\ UNCHANGED <<store, tokens, pc, req, doc>>
    /\ UNCHANGED gvars

\* register: `await user.save()` throws on validation, in the hashing
\* hook or in the store, for another reason than a duplicate key.
RegisterSaveFails(p, error) ==
    /\ pc[p] = "register_save"
    /\ out' = Thrown("RegisterSave", req[p], "save", error,
                     registerCatch(error))
    /\ Done(p)
    /\ UNCHANGED <<store, tokens>>
    /\ UNCHANGED gvars

\* login: `await UserModel.findByEmail` throws.
LoginFindByEmailFails(p, email, password, error) ==
    /\ pc[p] = "idle"
    /\ out' = Thrown("LoginFindByEmail",
                     [NoReq EXCEPT !.email = email, !.password = password],
                     "findByEmail", error, loginCatch(error))
    /\ UNCHANGED <<store, tokens, pc, req, doc>>
    /\ UNCHANGED gvars

\* login: the await at which the request stands, comparePassword or save,
\* throws.
LoginFails(p, error) ==
    /\ pc[p] \in {"login_compare", "login_save"}
    /\ out' = IF pc[p] = "login_compare"
              THEN Thrown("LoginComparePassword", req[p], "comparePassword",
                          error, loginCatch(error))
              ELSE Thrown("LoginSave", req[p], "save", error,
                          loginCatch(error))
    /\ Done(p)
    /\ UNCHANGED <<store, tokens>>
    /\ UNCHANGED gvars

\* getProfile: `findById` inside getAuthenticatedUser throws.
GetProfileFails(userId, error) ==
    /\ userId # 0
    /\ out' = Thrown("GetProfile", [NoReq EXCEPT !.userId = userId],
                     "findById", error, getProfileCatch(error))
    /\ UNCHANGED <<store, tokens, pc, req, doc>>
    /\ UNCHANGED gvars

\* updateProfile: `findById` inside getAuthenticatedUser throws.
UpdateFindByIdFails(p, userId, name, currentPassword, newPassword, error) ==
    /\ pc[p] = "idle"
    /\ userId # 0
    /\ out' = Thrown("UpdateFindById",
                     [NoReq EXCEPT !.userId = userId, !.name = name,
                                   !.currentPassword = currentPassword,
                                   !.newPassword = newPassword],
                     "findById", error, updateProfileCatch(error))
    /\ UNCHANGED <<store, tokens, pc, req, doc>>
    /\ UNCHANGED gvars

\* updateProfile: the await at which the request stands, comparePassword
\* or save, throws.
UpdateProfileFails(p, error) ==
    /\ pc[p] \in {"update_compare", "update_save"}
    /\ out' = IF pc[p] = "update_compare"
              THEN Thrown("UpdateComparePassword", req[p], "comparePassword",
                          error, updateProfileCatch(error))
              ELSE Thrown("UpdateSave", req[p], "save", error,
                          updateProfileCatch(error))
    /\ Done(p)
    /\ UNCHANGED <<store, tokens>>
    /\ UNCHANGED gvars

\* ---------------------------------------------------------------- guides
\* Identifiers a request can name, and those the generator hands out.
GuideIds == 1..(MaxGuides + 1)

\* { ...a, ...b }: the properties of a, overridden and extended by b's.
Spread(a, b) ==
    [f \in DOMAIN a \cup DOMAIN b |-> IF f \in DOMAIN b THEN b[f] ELSE a[f]]

\* !o.f for a property whose falsy value is `zero`: absent, or zero.
Falsy(o, f, zero) == f \notin DOMAIN o \/ o[f] = zero

\* The empty body {}.
EmptyBody == [f \in {} |-> Absent]

\* A complete body for createGuide.
FullBody ==
    [name |-> "Asha", bio |-> "Guide", pricing |-> [fullDay |-> 100],
     specializations |-> <<"Trekking">>]

\* Bodies createGuide accepts: complete, carrying _id and createdAt of the
\* client's choice, and without specializations.
ValidBodies ==
    {FullBody,
     Spread(FullBody, [_id |-> 1, createdAt |-> 0,
                       specializations |-> <<"Wildlife">>]),
     [name |-> "Birsa", bio |-> "Guide", pricing |-> [fullDay |-> 100]]}

\* Bodies with a required item absent, empty or zero.
InvalidBodies ==
    {EmptyBody,
     [bio |-> "Guide", pricing |-> [fullDay |-> 100]],
     [name |-> "Asha", bio |-> "Guide"],
     Spread(FullBody, [name |-> ""]),
     Spread(FullBody, [pricing |-> [halfDay |-> 50]]),
     Spread(FullBody, [pricing |-> [fullDay |-> 0]])}

\* Bodies of updateGuide.
UpdateBodies ==
    {[name |-> "Birsa", _id |-> 2, createdAt |-> 0],
     [specializations |-> <<"trekking">>]}

\* Values of the query parameter `specialization`.
Specializations == {Absent, "TREKKING", "wildlife"}

\* String.prototype.toLowerCase on the strings in use.
toLowerCase(s) ==
    CASE s \in {"Trekking", "TREKKING", "trekking"} -> "trekking"
      [] s \in {"Wildlife", "wildlife"} -> "wildlife"
      [] OTHER -> s

\* generateId(): a value it has not returned before.
generateId == nextId

\* What the framework answers when a synchronous handler throws.
Uncaught(error) == [status |-> 500, thrown |-> error]

\* guidesStore.findIndex(g => g._id === id), counted from 1; 0 for -1.
findIndex(guides, id) ==
    IF \E i \in 1..Len(guides) : guides[i]._id = id
    THEN CHOOSE i \in 1..Len(guides) :
            /\ guides[i]._id = id
            /\ \A j \in 1..(i - 1) : guides[j]._id # id
    ELSE 0

\* filtered.slice(start, end), both counted from 0.
slice(s, start, end) ==
    SubSeq(s, start + 1, IF end < Len(s) THEN end ELSE Len(s))

\* guidesStore.splice(index, 1), index counted from 1.
splice(guides, index) ==
    SubSeq(guides, 1, index - 1) \o SubSeq(guides, index + 1, Len(guides))

\* getPaginationMeta(page, limit, total)
getPaginationMeta(page, limit, total) ==
    [page |-> page, limit |-> limit, total |-> total,
     totalPages |-> (total + limit - 1) \div limit]

\* g.specializations.some(s => s.toLowerCase() === specialization.toLowerCase())
matches(g, specialization) ==
    \E i \in 1..Len(g.specializations) :
        toLowerCase(g.specializations[i]) = toLowerCase(specialization)

\* Mutation: the bio of a new guide is not validated.
createGuideErrors_NoBio(input) ==
    (IF Falsy(input, "name", "")
     THEN <<[field |-> "name", message |-> "Name is required"]>> ELSE <<>>)
    \o (IF "pricing" \notin DOMAIN input \/ Falsy(input.pricing, "fullDay", 0)
        THEN <<[field |-> "pricing.fullDay",
                message |-> "Full day pricing is required"]>> ELSE <<>>)

\* The validation of createGuide: the errors array.
createGuideErrors(input) ==
    (IF Falsy(input, "name", "")
     THEN <<[field |-> "name", message |-> "Name is required"]>> ELSE <<>>)
    \o (IF Falsy(input, "bio", "")
        THEN <<[field |-> "bio", message |-> "Bio is required"]>> ELSE <<>>)
    \o (IF "pricing" \notin DOMAIN input \/ Falsy(input.pricing, "fullDay", 0)
        THEN <<[field |-> "pricing.fullDay",
                message |-> "Full day pricing is required"]>> ELSE <<>>)

\* { _id: generateId(), ...input, createdAt: now, updatedAt: now }
newGuide(id, input, now) ==
    Spread(Spread([_id |-> id], input), [createdAt |-> now, updatedAt |-> now])

\* Mutation: the request body is spread last, over _id and createdAt.
updatedGuide_UpdatesLast(stored, updates, now) ==
    Spread(Spread(stored, [_id |-> stored._id, createdAt |-> stored.createdAt,
                           updatedAt |-> now]),
           updates)

\* { ...stored, ...updates, _id: stored._id, createdAt: stored.createdAt,
\*   updatedAt: new Date() }
updatedGuide(stored, updates, now) ==
    Spread(Spread(stored, updates),
           [_id |-> stored._id, createdAt |-> stored.createdAt,
            updatedAt |-> now])

\* getAllGuides, given the page and limit parsePaginationParams returned.
GetAllGuides(page, limit, specialization) ==
    LET filtered == IF specialization # Absent
                    THEN SelectSeq(guidesStore,
                                   LAMBDA g : matches(g, specialization))
                    ELSE guidesStore
        startIndex == (page - 1) * limit
        paginatedGuides == slice(filtered, startIndex, startIndex + limit)
        request == [page |-> page, limit |-> limit,
                    specialization |-> specialization]
    IN /\ gout' =
            [op |-> "getAllGuides", req |-> request,
             resp |-> IF /\ specialization # Absent
                         /\ \E i \in 1..Len(guidesStore) :
                               "specializations" \notin DOMAIN guidesStore[i]
                      THEN Uncaught("TypeError")
                      ELSE sendSuccess(
                             [guides |-> paginatedGuides,
                              pagination |->
                                getPaginationMeta(page, limit, Len(filtered))],
                             200, Absent)]
       /\ UNCHANGED <<guidesStore, nextId>>
       /\ UNCHANGED vars

\* getGuideById.
GetGuideById(id) ==
    LET index == findIndex(guidesStore, id)
    IN /\ gout' = [op |-> "getGuideById", req |-> [id |-> id],
                   resp |-> IF index = 0
                            THEN sendError("Guide not found", 404)
                            ELSE sendSuccess(guidesStore[index], 200, Absent)]
       /\ UNCHANGED <<guidesStore, nextId>>
       /\ UNCHANGED vars

\* createGuide.
CreateGuide(input, now) ==
    LET errors == createGuideErrors(input)
        guide == newGuide(generateId, input, now)
    IN /\ IF errors # <<>>
          THEN /\ gout' = [op |-> "createGuide", req |-> [body |-> input],
                           resp |-> sendErrors("Validation failed", 400,
                                               errors)]
               /\ UNCHANGED <<guidesStore, nextId>>
          ELSE /\ guidesStore' = Append(guidesStore, guide)
               /\ nextId' = nextId + 1
               /\ gout' = [op |-> "createGuide", req |-> [body |-> input],
                           resp |-> sendSuccess(guide, 201,
                                      "Guide profile created successfully")]
       /\ UNCHANGED vars

\* updateGuide.
UpdateGuide(id, updates, now) ==
    LET index == findIndex(guidesStore, id)
        guide == updatedGuide(guidesStore[index], updates, now)
        request == [id |-> id, body |-> updates]
    IN /\ IF index = 0
          THEN /\ gout' = [op |-> "updateGuide", req |-> request,
                           resp |-> sendError("Guide not found", 404)]
               /\ UNCHANGED guidesStore
          ELSE /\ guidesStore' = [guidesStore EXCEPT ![index] = guide]
               /\ gout' = [op |-> "updateGuide", req |-> request,
                           resp |-> sendSuccess(guide, 200,
                                      "Guide profile updated successfully")]
       /\ UNCHANGED nextId
       /\ UNCHANGED vars

\* deleteGuide.
DeleteGuide(id) ==
    LET index == findIndex(guidesStore, id)
    IN /\ IF index = 0
          THEN /\ gout' = [op |-> "deleteGuide", req |-> [id |-> id],
                           resp |-> sendError("Guide not found", 404)]
               /\ UNCHANGED guidesStore
          ELSE /\ guidesStore' = splice(guidesStore, index)
               /\ gout' = [op |-> "deleteGuide", req |-> [id |-> id],
                           resp |-> sendSuccess(NoData, 200,
                                      "Guide profile deleted successfully")]
       /\ UNCHANGED nextId
       /\ UNCHANGED vars

\* The exploration stops adding guides when the store holds MaxGuides of
\* them or the generator has handed out its last identifier of GuideIds; a
\* body that createGuide rejects is sent in every state.
GuideNext ==
    \/ \E page \in GuideIds, limit \in 1..MaxGuides,
          specialization \in Specializations :
            GetAllGuides(page, limit, specialization)
    \/ \E id \in GuideIds : GetGuideById(id)
    \/ \E input \in ValidBodies \cup InvalidBodies, now \in Times :
            /\ \/ createGuideErrors(input) # <<>>
               \/ Len(guidesStore) < MaxGuides /\ nextId \in GuideIds
            /\ CreateGuide(input, now)
    \/ \E id \in GuideIds, updates \in UpdateBodies, now \in Times :
            UpdateGuide(id, updates, now)
    \/ \E id \in GuideIds : DeleteGuide(id)

\* The guide handlers alone; the user collection stays as constructed.
GuideSpec == Init /\ [][GuideNext]_<<vars, gvars>>

\* The identity the auth middleware attaches: that of an issued token, or
\* none.
Identities == {t.userId : t \in tokens} \cup {0}

Next ==
    \/ \E p \in Procs, email \in Registrants, password \in RegisterPasswords,
          name \in {"A"}, role \in {Absent, "admin"} :
            RegisterFindOne(p, email, password, name, role)
    \/ \E p \in Procs : RegisterSave(p)
    \/ \E p \in Procs, email \in Emails, password \in Passwords :
            LoginFindByEmail(p, email, password)
    \/ \E p \in Procs, now \in Times : LoginComparePassword(p, now)
    \/ \E p \in Procs : LoginSave(p)
    \/ \E userId \in Identities : GetProfile(userId)
    \/ \E p \in Procs, userId \in Identities, b \in UpdateInputs :
            UpdateFindById(p, userId, b[1], b[2], b[3])
    \/ \E p \in Procs : UpdateComparePassword(p)
    \/ \E p \in Procs : UpdateSave(p)
    \/ \E id \in {u.id : u \in store} : Deactivate(id)

\* The auth handlers alone; the guide store stays as constructed.
Spec == Init /\ [][Next]_<<vars, gvars>>

\* The handlers over a store and a hasher that can fail.
Fault ==
    \/ \E p \in Procs, email \in Registrants, password \in RegisterPasswords,
          role \in {Absent, "admin"} :
            RegisterFindOneFails(p, email, password, "A", role, OtherError)
    \/ \E p \in Procs, error \in {ValidationError, OtherError} :
            RegisterSaveFails(p, error)
    \/ \E p \in Procs, email \in Emails, password \in Passwords :
            LoginFindByEmailFails(p, email, password, OtherError)
    \/ \E p \in Procs : LoginFails(p, OtherError)
    \/ \E userId \in Identities : GetProfileFails(userId, OtherError)
    \/ \E p \in Procs, userId \in Identities, name \in Names,
          currentPassword \in Passwords \cup {Absent},
          newPassword \in {"wrong", Absent} :
            UpdateFindByIdFails(p, userId, name, currentPassword,
                                newPassword, OtherError)
    \/ \E p \in Procs : UpdateProfileFails(p, OtherError)

FaultNext == Next \/ Fault

FaultSpec == Init /\ [][FaultNext]_<<vars, gvars>>

\* ----------------------------------------------------------------- claims
InvalidCredentials == sendError("Invalid credentials", 401)
EmailRegistered == sendError("Email already registered", 409)
Deactivated == sendError("Account is deactivated", 403)

\* The body b carries both passwords / exactly one of them.
PasswordPair(b) == passwordChangeRequested(b.currentPassword, b.newPassword)
OneOfPair(b) ==
    (b.currentPassword # Absent) # (b.newPassword # Absent)

\* The slots whose request took the step.
Acting == {p \in Procs : pc'[p] # pc[p]}

\* A login is decided on the user document it loads: the lookup of an
\* active user hands the request that document, the comparison lets the
\* request go on exactly when its password matches the loaded hash, and the
\* save answers 200 with a token of the loaded user's identifier and role.
LoginByLookup ==
    /\ out'.op = "LoginFindByEmail"
       => LET u == ByEmail(store, out'.req.email)
          IN IF u # NullUser /\ u.isActive
             THEN /\ out'.resp = NoResp
                  /\ \E p \in Acting :
                        /\ pc'[p] = "login_compare"
                        /\ doc'[p] = u /\ req'[p] = out'.req
             ELSE out'.resp # NoResp /\ pc' = pc
    /\ \A p \in Acting :
          /\ pc[p] = "login_compare"
             => IF comparePassword(doc[p], req[p].password)
                THEN /\ out'.resp = NoResp /\ pc'[p] = "login_save"
                     /\ req'[p] = req[p]
                     /\ doc'[p].lastLogin \in Times
                     /\ doc'[p] = [doc[p] EXCEPT
                                     !.lastLogin = doc'[p].lastLogin]
                ELSE out'.resp = InvalidCredentials /\ pc'[p] = "idle"
          /\ pc[p] = "login_save"
             => /\ out'.op = "LoginSave" /\ out'.req = req[p]
                /\ out'.resp.status = 200
                /\ out'.resp.data.token = generateToken(doc[p].id, doc[p].role)
                /\ out'.resp.data.token \in tokens'
                /\ out'.resp.data.user.id = doc[p].id
    /\ \A p \in Procs \ Acting : doc'[p] = doc[p] /\ req'[p] = req[p]

\* C1: under every interleaving of register requests the collection never
\* holds two users with one email and never loses a user; a register
\* request is answered 201 only when no user had its email, and it then
\* adds that user; every register request that meets a user with its
\* email, at the pre-check or at the insert, is answered 409 'Email
\* already registered' and adds nothing.
C1_Step ==
    /\ \A u, v \in store' : u.email = v.email => u = v
    /\ \A u \in store : ByEmail(store', u.email) # NullUser
    /\ (out'.op \in {"RegisterFindOne", "RegisterSave"}
        /\ ByEmail(store, out'.req.email) # NullUser)
       => (out'.resp = EmailRegistered /\ store' = store)
    /\ (out'.op = "RegisterSave"
        /\ ByEmail(store, out'.req.email) = NullUser)
       => (/\ out'.resp.status = 201
           /\ ByEmail(store', out'.req.email) # NullUser
           /\ Cardinality(store') = Cardinality(store) + 1)
    /\ (out'.op \in {"RegisterFindOne", "RegisterSave"}
        /\ out'.resp.status = 201)
       => ByEmail(store, out'.req.email) = NullUser

C1_RegisterOncePerEmail == [][C1_Step]_vars

\* A register request lost the race: its pre-check passed and its insert
\* was rejected.
C1_Witness ==
    out.op = "RegisterSave" /\ out.resp.status = 409

\* C2: a successful register stores a user whose identifier and role are
\* those of the response and token and whose password is the one given; a
\* login that finds that user active and carries the password then stored
\* goes on to its save and is answered 200 with a token that carries the
\* stored user's identifier and role, the token register issued.
C2_Step ==
    /\ (out'.op = "RegisterSave" /\ out'.resp.status = 201)
       => LET u == ByEmail(store', out'.req.email)
          IN /\ u.id = out'.resp.data.user.id
             /\ u.id = out'.resp.data.token.userId
             /\ u.role = out'.resp.data.token.role
             /\ out'.resp.data.token \in tokens'
             /\ u.isActive
             /\ comparePassword(u, out'.req.password)
    /\ LoginByLookup
    /\ out'.op = "LoginSave"
       => LET u == ByEmail(store, out'.req.email)
          IN /\ out'.resp.data.token \in tokens
             /\ out'.resp.data.token.userId = u.id
             /\ out'.resp.data.token.role = u.role
             /\ out'.resp.data.user.id = u.id

C2_RegisterThenLogin == [][C2_Step]_vars

\* A login answered 200 for a user registered with a role of its own.
C2_Witness ==
    /\ out.op = "LoginSave" /\ out.resp.status = 200
    /\ out.resp.data.token.role = "admin"
    /\ ByEmail(store, out.req.email).id = out.resp.data.token.userId

\* C3: in every state of the collection, a login with an email that has no
\* user and a login that loaded an active user and carries a password that
\* does not match are answered alike: 401 'Invalid credentials', same body.
C3_Step ==
    /\ (out'.op = "LoginFindByEmail"
        /\ ByEmail(store, out'.req.email) = NullUser)
       => out'.resp = InvalidCredentials
    /\ \A p \in Acting :
          (pc[p] = "login_compare"
           /\ ~comparePassword(doc[p], req[p].password))
          => /\ out'.resp = InvalidCredentials
             /\ out'.resp = loginLookup(NullUser)
    /\ \A p \in Procs :
          pc[p] = "login_compare" => doc[p] # NullUser /\ doc[p].isActive
    /\ \A e1, e2 \in Emails, p2 \in Passwords :
          LET u1 == ByEmail(store, e1)
              u2 == ByEmail(store, e2)
          IN (u1 = NullUser /\ u2 # NullUser /\ u2.isActive
              /\ ~comparePassword(u2, p2))
             => /\ loginLookup(u2) = NoResp
                /\ loginLookup(u1) = loginPassword(u2, p2)

C3_SameResponse == [][C3_Step]_vars

\* A login with the email of an active user and a wrong password, while
\* another email has no user.
C3_Witness ==
    /\ out.op = "LoginComparePassword" /\ out.resp.status = 401
    /\ LET u == ByEmail(store, out.req.email)
       IN u # NullUser /\ u.isActive /\ ~comparePassword(u, out.req.password)
    /\ \E e \in Emails : ByEmail(store, e) = NullUser

\* C4: a login with the email of a deactivated account and a password that
\* is not the account's is answered as a login with an email that has no
\* user is.
C4_DeactivatedLikeUnknown ==
    (out.op = "LoginFindByEmail"
     /\ LET u == ByEmail(store, out.req.email)
        IN u # NullUser /\ ~u.isActive
           /\ ~comparePassword(u, out.req.password))
    => out.resp = loginLookup(NullUser)

\* C5: an updateProfile that carried both currentPassword and newPassword
\* and is answered 200 leaves the hash of newPassword stored (and so not
\* that of a different old password); a login that loads the user from
\* then on, until the password is changed again, is answered 200 with
\* newPassword and 401 with the old password: every login is decided on
\* the hash stored when it loaded the user.
C5_Step ==
    /\ (out'.op = "UpdateSave" /\ PasswordPair(out'.req))
       => LET u == ById(store', out'.req.userId)
          IN /\ out'.resp.status = 200
             /\ comparePassword(u, out'.req.newPassword)
             /\ (out'.req.currentPassword # out'.req.newPassword
                 => ~comparePassword(u, out'.req.currentPassword))
    /\ LoginByLookup
    /\ \A p \in Acting :
          (pc[p] = "login_compare" /\ out'.resp = NoResp)
          => comparePassword(doc[p], req[p].password)

C5_PasswordRotated == [][C5_Step]_vars

\* A login with the old password, the only one a sign-up carries, was
\* refused on a stored hash of the new password: an updateProfile with
\* both passwords had saved it before the login loaded the user.
C5_Witness ==
    /\ out.op = "LoginComparePassword" /\ out.resp = InvalidCredentials
    /\ out.req.password \in RegisterPasswords
    /\ LET u == ByEmail(store, out.req.email)
       IN /\ u # NullUser /\ u.isActive
          /\ comparePassword(u, "wrong")
          /\ ~comparePassword(u, out.req.password)
    /\ \E p \in Procs : pc[p] = "idle"

\* C6: an updateProfile for an existing user that carries exactly one of
\* currentPassword / newPassword, with or without a name, skips the
\* password comparison, is answered 200 and leaves the stored password
\* hash as it was; a login that loads the user afterwards with the stored
\* password is answered 200.
C6_Step ==
    /\ (out'.op = "UpdateFindById" /\ OneOfPair(out'.req)
        /\ ById(store, out'.req.userId) # NullUser)
       => /\ out'.resp = NoResp
          /\ \E p \in Acting : pc'[p] = "update_save" /\ req'[p] = out'.req
    /\ (out'.op = "UpdateSave" /\ OneOfPair(out'.req))
       => (/\ out'.resp.status = 200
           /\ ById(store', out'.req.userId).password
                = ById(store, out'.req.userId).password)
    /\ LoginByLookup

C6_HalfPairKeepsPassword == [][C6_Step]_vars

\* An updateProfile with newPassword and no currentPassword was answered.
C6_Witness ==
    /\ out.op = "UpdateSave" /\ out.resp.status = 200
    /\ out.req.newPassword # Absent /\ out.req.currentPassword = Absent
    /\ out.req.name # Absent
    /\ ~comparePassword(ById(store, out.req.userId), out.req.newPassword)

\* C7 as stated: the stored password hash of a user changes only in an
\* updateProfile step made with that user's identity whose currentPassword
\* matches the hash stored at the time of the change.
C7_ChangeStep ==
    \A u \in store :
       ById(store', u.id).password # u.password
       => (/\ out'.op = "UpdateSave"
           /\ out'.req.userId = u.id
           /\ out'.req.newPassword # Absent
           /\ comparePassword(u, out'.req.currentPassword))

C7_PasswordNeedsCurrent == [][C7_ChangeStep]_vars

\* C7 amended: the stored password hash of a user changes only at the save
\* of an updateProfile made with that user's identity that carries both
\* passwords, and to the hash of its newPassword; such a request reaches
\* its save only when its currentPassword matches the hash it loaded, which
\* was the stored one when it loaded the user; when it does not match the
\* request is answered 400 'Current password is incorrect' and saves
\* nothing.
C7_Step ==
    /\ \A u \in store :
          ById(store', u.id).password # u.password
          => (/\ out'.op = "UpdateSave"
              /\ out'.req.userId = u.id
              /\ PasswordPair(out'.req)
              /\ ById(store', u.id).password = Hash(out'.req.newPassword))
    /\ (out'.op = "UpdateFindById" /\ out'.resp = NoResp)
       => \E p \in Acting :
             /\ req'[p] = out'.req
             /\ doc'[p].password = ById(store, out'.req.userId).password
             /\ pc'[p] = IF PasswordPair(out'.req)
                         THEN "update_compare" ELSE "update_save"
    /\ \A p \in Acting :
          pc[p] = "update_compare"
          => IF comparePassword(doc[p], req[p].currentPassword)
             THEN /\ out'.resp = NoResp /\ pc'[p] = "update_save"
                  /\ req'[p] = req[p]
             ELSE /\ out'.resp = sendError("Current password is incorrect",
                                           400)
                  /\ pc'[p] = "idle" /\ store' = store
    /\ \A p \in Procs \ Acting : doc'[p] = doc[p] /\ req'[p] = req[p]
    /\ \A p \in Procs : pc[p] = "update_compare" => PasswordPair(req[p])

C7_PasswordNeedsLoadedCurrent == [][C7_Step]_vars

\* A password change with a current password that is not the loaded one
\* has been rejected.
C7_Witness ==
    /\ out.op = "UpdateComparePassword" /\ out.resp.status = 400
    /\ PasswordPair(out.req)
    /\ ~comparePassword(ById(store, out.req.userId), out.req.currentPassword)

\* C8 as stated: a login answered while the active flag of its user is
\* false is answered 403 'Account is deactivated' and gets no token, and so
\* is a getProfile with that user's identity.
C8_DeactivatedRefused ==
    /\ (out.op \in {"LoginFindByEmail", "LoginComparePassword", "LoginSave"}
        /\ out.resp # NoResp
        /\ ByEmail(store, out.req.email) # NullUser
        /\ ~ByEmail(store, out.req.email).isActive)
       => out.resp = Deactivated
    /\ (out.op = "GetProfile"
        /\ ById(store, out.req.userId) # NullUser
        /\ ~ById(store, out.req.userId).isActive)
       => out.resp = Deactivated

\* C8 amended: a login that finds the active flag of its user false when it
\* loads the user is answered 403 'Account is deactivated' without data and
\* issues no token, also with the correct password, and a getProfile with
\* the identity of a token of that user is answered 403 without data; a
\* login in flight loaded its user with the flag set.
C8_Step ==
    /\ (out'.op = "LoginFindByEmail"
        /\ ByEmail(store, out'.req.email) # NullUser
        /\ ~ByEmail(store, out'.req.email).isActive)
       => /\ out'.resp = Deactivated
          /\ tokens' = tokens /\ pc' = pc /\ store' = store
    /\ (out'.op = "GetProfile"
        /\ ById(store, out'.req.userId) # NullUser
        /\ ~ById(store, out'.req.userId).isActive)
       => out'.resp = Deactivated /\ tokens' = tokens
    /\ \A p \in Procs :
          pc[p] \in {"login_compare", "login_save"} => doc[p].isActive

C8_DeactivatedAtLookupRefused == [][C8_Step]_vars

\* A login with the correct password of a deactivated account that had
\* been issued a token.
C8_Witness ==
    /\ out.op = "LoginFindByEmail"
    /\ LET u == ByEmail(store, out.req.email)
       IN /\ u # NullUser /\ ~u.isActive
          /\ comparePassword(u, out.req.password)
          /\ \E t \in tokens : t.userId = u.id

\* The user objects a response carries.
UsersIn(response) ==
    IF "user" \in DOMAIN response.data THEN {response.data.user}
    ELSE IF "email" \in DOMAIN response.data THEN {response.data}
    ELSE {}

SanitizedFields == {"id", "email", "name", "role", "isActive", "lastLogin"}

\* C9: every user object in a response of register, login, getProfile or
\* updateProfile has exactly the fields of the sanitized representation (no
\* password field), none of its text fields is a password, and an error
\* response carries no user object.
C9_Sanitized ==
    /\ \A x \in UsersIn(out.resp) :
          /\ DOMAIN x = SanitizedFields
          /\ \A f \in {"email", "name", "role"} : x[f] \notin Passwords
    /\ DOMAIN out.resp = {"status", "success", "message", "data"}
    /\ out.resp.message \notin Passwords
    /\ DOMAIN out.resp.data \subseteq {"user", "token", "none"} \cup SanitizedFields
    /\ ("token" \in DOMAIN out.resp.data
        => DOMAIN out.resp.data.token = {"userId", "role"})
    /\ (~out.resp.success => UsersIn(out.resp) = {})

\* An updateProfile that loaded the hash and changed the password returned
\* a user object.
C9_Witness ==
    /\ out.op = "UpdateSave" /\ out.resp.status = 200
    /\ PasswordPair(out.req)
    /\ UsersIn(out.resp) # {}

\* C10 as stated: after an updateProfile for an existing user with a name
\* supplied has been answered, the stored name is the supplied name,
\* whatever the request's passwords and the outcome of the password check.
C10_NameAlwaysReplaced ==
    (out.op \in {"UpdateFindById", "UpdateComparePassword", "UpdateSave"}
     /\ out.resp # NoResp /\ out.req.name # Absent
     /\ ById(store, out.req.userId) # NullUser)
    => ById(store, out.req.userId).name = out.req.name

\* C10 amended: an updateProfile for an existing user with a name supplied
\* stores the supplied name and is answered 200 with it, whatever passwords
\* it carries, except when it carries both currentPassword and newPassword
\* and currentPassword does not match the hash it loaded: it is then
\* answered 400 and saves nothing, the name neither.
C10_Step ==
    /\ (out'.op = "UpdateFindById" /\ out'.req.name # Absent
        /\ ById(store, out'.req.userId) # NullUser)
       => /\ out'.resp = NoResp
          /\ \E p \in Acting :
                req'[p] = out'.req /\ doc'[p].name = out'.req.name
    /\ \A p \in Acting :
          pc[p] = "update_compare"
          => IF comparePassword(doc[p], req[p].currentPassword)
             THEN /\ out'.resp = NoResp /\ pc'[p] = "update_save"
                  /\ req'[p] = req[p] /\ doc'[p].name = doc[p].name
             ELSE out'.resp.status = 400 /\ store' = store
    /\ (out'.op = "UpdateSave" /\ out'.req.name # Absent)
       => /\ out'.resp.status = 200
          /\ ById(store', out'.req.userId).name = out'.req.name
          /\ out'.resp.data.name = out'.req.name
    /\ \A p \in Procs \ Acting : doc'[p] = doc[p] /\ req'[p] = req[p]

C10_NameReplacedUnlessRejected == [][C10_Step]_vars

\* A new name was stored by a request that also changed the password.
C10_Witness ==
    /\ out.op = "UpdateSave" /\ out.resp.status = 200
    /\ PasswordPair(out.req) /\ out.req.name = "B"
    /\ ById(store, out.req.userId).name = "B"

\* The fields in which stored documents u and v differ.
Differ(u, v) == {f \in DOMAIN u : u[f] # v[f]}

\* C12: no step removes a user or changes the identifier, email or role of
\* a stored user; a register or getProfile step leaves every stored user
\* as it was, a login step changes at most the last-login timestamp of its
\* user and an updateProfile step at most the name and the password of its
\* user.
C12_Step ==
    /\ \A u \in store :
          LET v == ById(store', u.id)
          IN /\ v # NullUser
             /\ v.email = u.email /\ v.role = u.role
             /\ ByEmail(store', u.email) = v
             /\ (out'.op \in {"RegisterFindOne", "RegisterSave", "GetProfile",
                              "LoginFindByEmail", "LoginComparePassword",
                              "UpdateFindById", "UpdateComparePassword"}
                 => v = u)
             /\ (out'.op = "LoginSave"
                 => /\ Differ(u, v) \subseteq {"lastLogin"}
                    /\ (u.email # out'.req.email => v = u))
             /\ (out'.op = "UpdateSave"
                 => /\ Differ(u, v) \subseteq {"name", "password"}
                    /\ (u.id # out'.req.userId => v = u))
    /\ Cardinality(store') >= Cardinality(store)

C12_UsersKeepIdentity == [][C12_Step]_vars

\* A user registered as admin, later renamed with a changed password, has
\* logged in: the timestamp is set and the role is the registered one.
C12_Witness ==
    /\ out.op = "LoginSave" /\ out.resp.status = 200
    /\ LET u == ByEmail(store, out.req.email)
       IN /\ u.role = "admin" /\ u.name = "B" /\ u.lastLogin \in Times
          /\ comparePassword(u, "wrong")
          /\ u.id = out.resp.data.user.id

\* ------------------------------------------------------------- failures
\* The fixed message each handler's catch block answers with.
GenericMessage(op) ==
    CASE op \in {"RegisterFindOne", "RegisterSave"} -> "Registration failed"
      [] op \in {"LoginFindByEmail", "LoginComparePassword", "LoginSave"}
            -> "Login failed"
      [] op = "GetProfile" -> "Failed to get profile"
      [] op \in {"UpdateFindById", "UpdateComparePassword", "UpdateSave"}
            -> "Failed to update profile"

Envelope == {"status", "success", "message", "data"}

\* The await a step of handler `op` starts from; "idle" for a first step.
AwaitOf(op) ==
    CASE op = "RegisterSave" -> "register_save"
      [] op = "LoginComparePassword" -> "login_compare"
      [] op = "LoginSave" -> "login_save"
      [] op = "UpdateComparePassword" -> "update_compare"
      [] op = "UpdateSave" -> "update_save"
      [] OTHER -> "idle"

\* C11: a failure thrown by the store or the hasher inside a handler is
\* answered by that handler, once, in the error envelope: register answers
\* a validation error with 400 and one entry per failing field and a
\* duplicate key with 409, every other failure is answered with 500 and
\* the handler's fixed message; the failed request is over, and a handler
\* step leaves a request unanswered only when the request goes on.
C11_Step ==
    /\ "fault" \in DOMAIN out' =>
          /\ out'.resp.success = FALSE /\ out'.resp.data = NoData
          /\ IF out'.error.name = "ValidationError"
             THEN /\ out'.op = "RegisterSave"
                  /\ out'.resp.status = 400
                  /\ out'.resp.message = "Validation failed"
                  /\ DOMAIN out'.resp = Envelope \cup {"errors"}
                  /\ {e.field : e \in out'.resp.errors}
                        = DOMAIN out'.error.errors
                  /\ Cardinality(out'.resp.errors)
                        = Cardinality(DOMAIN out'.error.errors)
             ELSE /\ out'.resp.status = 500
                  /\ out'.resp.message = GenericMessage(out'.op)
                  /\ DOMAIN out'.resp = Envelope
          /\ \A p \in Procs :
                \/ pc'[p] = pc[p] /\ req'[p] = req[p]
                \/ /\ pc[p] = AwaitOf(out'.op) /\ pc[p] # "idle"
                   /\ pc'[p] = "idle" /\ out'.req = req[p]
    /\ (out'.op = "RegisterSave" /\ "fault" \notin DOMAIN out'
          /\ DuplicateKey(out'.req.email))
          => out'.resp = sendError("Email already registered", 409)
    /\ \A p \in Acting :
          /\ pc'[p] = "idle"
                => /\ out'.op # "none" /\ pc[p] = AwaitOf(out'.op)
                   /\ out'.req = req[p] /\ out'.resp # NoResp
          /\ pc'[p] # "idle"
                => /\ out'.op # "none" /\ pc[p] = AwaitOf(out'.op)
                   /\ out'.req = req'[p] /\ out'.resp = NoResp
    /\ (out'.op \notin {"none", "Deactivate"} /\ out'.resp = NoResp)
          => \E p \in Acting : pc'[p] # "idle"
    /\ (AwaitOf(out'.op) = "idle" /\ out'.resp # NoResp) => pc' = pc
    /\ Cardinality(Acting) <= 1

C11_FailuresAnswered == [][C11_Step]_vars

\* A login whose store failed after the password matched, while a
\* registration is in flight.
C11_Witness ==
    /\ out.op = "LoginSave" /\ "fault" \in DOMAIN out /\ out.fault = "save"
    /\ out.resp = sendError("Login failed", 500)
    /\ ByEmail(store, out.req.email) # NullUser
    /\ \E p \in Procs : pc[p] = "register_save"

\* C14: a login that reaches the save of the last-login time (its user was
\* active and its password matched) is answered 200 with a token and the
\* last-login time, also when that save fails.
C14_LoginSurvivesSaveFailure ==
    out.op = "LoginSave"
    => /\ out.resp.status = 200
       /\ "token" \in DOMAIN out.resp.data
       /\ out.resp.data.token \in tokens
       /\ out.resp.data.user.lastLogin \in Times

\* C15: a step that answers a request with an error leaves the user store
\* as it was, and so does every step of that request before it: a failed
\* login sets no last-login time, and an updateProfile rejected for a wrong
\* current password saves neither password nor name.
C15_Step ==
    /\ (out'.resp # NoResp /\ ~out'.resp.success)
        => /\ store' = store
           /\ out'.resp.status \in {400, 401, 403, 404, 409, 500}
    /\ (out'.op \notin {"none", "Deactivate"} /\ out'.resp = NoResp)
        => store' = store

C15_ErrorsLeaveStore == [][C15_Step]_vars

\* An updateProfile answered 400 that carried a new name and a new password.
C15_Witness ==
    LET user == ById(store, out.req.userId)
    IN /\ out.op = "UpdateComparePassword" /\ out.resp.status = 400
       /\ user # NullUser
       /\ out.req.name \notin {Absent, user.name}
       /\ ~comparePassword(user, out.req.newPassword)

\* --------------------------------------------------------------- guides
\* C13: the identifier of a stored guide is the one the generator returned
\* at its creation, whatever the request bodies carried, and no two guides
\* in the store have the same _id.
C13_GeneratedDistinctIds ==
    /\ \A i, j \in 1..Len(guidesStore) :
          i # j => guidesStore[i]._id # guidesStore[j]._id
    /\ (gout.op = "createGuide" /\ gout.resp.status = 201)
          => gout.resp.data._id = nextId - 1

\* C16: updateGuide on a stored id replaces the first guide with that id by
\* the stored guide with the body's fields laid over it, except that _id
\* and createdAt stay the stored ones also when the body carries them; the
\* guide keeps its position and every other guide stays as it was. On an
\* id that is not stored it answers 404 and the store stays as it was.
C16_Step ==
    gout'.op = "updateGuide" =>
        LET id == gout'.req.id
            updates == gout'.req.body
            index == findIndex(guidesStore, id)
            old == guidesStore[index]
            new == guidesStore'[index]
        IN IF index = 0
           THEN /\ gout'.resp = sendError("Guide not found", 404)
                /\ guidesStore' = guidesStore
           ELSE /\ gout'.resp.status = 200
                /\ gout'.resp.data = new
                /\ Len(guidesStore') = Len(guidesStore)
                /\ \A j \in 1..Len(guidesStore) :
                      j # index => guidesStore'[j] = guidesStore[j]
                /\ new._id = old._id
                /\ new.createdAt = old.createdAt
                /\ new.updatedAt \in Times
                /\ DOMAIN new = DOMAIN old \cup DOMAIN updates
                /\ \A f \in DOMAIN new \ {"_id", "createdAt", "updatedAt"} :
                      new[f] = IF f \in DOMAIN updates THEN updates[f]
                               ELSE old[f]

C16_UpdateKeepsIdentity == [][C16_Step]_gvars

\* An update of the second of two guides whose body carried another _id
\* and another createdAt.
C16_Witness ==
    /\ gout.op = "updateGuide" /\ gout.resp.status = 200
    /\ Len(guidesStore) = 2
    /\ findIndex(guidesStore, gout.req.id) = 2
    /\ "_id" \in DOMAIN gout.req.body
    /\ gout.req.body._id # gout.req.id
    /\ gout.req.body.createdAt # guidesStore[2].createdAt
    /\ guidesStore[2].name = gout.req.body.name
    /\ guidesStore[2]._id = gout.req.id

\* The items createGuide requires, with the error it reports for each.
RequiredItems ==
    <<[field |-> "name", message |-> "Name is required"],
      [field |-> "bio", message |-> "Bio is required"],
      [field |-> "pricing.fullDay",
       message |-> "Full day pricing is required"]>>

\* The body does not carry the item.
Missing(input, item) ==
    CASE item = "name" -> "name" \notin DOMAIN input
      [] item = "bio" -> "bio" \notin DOMAIN input
      [] item = "pricing.fullDay" ->
            \/ "pricing" \notin DOMAIN input
            \/ "fullDay" \notin DOMAIN input.pricing

\* The body carries the item as the empty string or as the number 0.
Blank(input, item) ==
    /\ ~Missing(input, item)
    /\ CASE item = "name" -> input.name = ""
         [] item = "bio" -> input.bio = ""
         [] item = "pricing.fullDay" -> input.pricing.fullDay = 0

\* What a createGuide step does when Refused tells the items it refuses:
\* 400 with one error per refused item and the store as it was, or one
\* guide appended with createdAt = updatedAt and 201.
CreateOutcome(Refused(_, _)) ==
    gout'.op = "createGuide" =>
        LET input == gout'.req.body
            errors == SelectSeq(RequiredItems,
                                LAMBDA e : Refused(input, e.field))
            n == Len(guidesStore)
        IN IF errors # <<>>
           THEN /\ gout'.resp = sendErrors("Validation failed", 400, errors)
                /\ guidesStore' = guidesStore
           ELSE /\ gout'.resp.status = 201
                /\ Len(guidesStore') = n + 1
                /\ SubSeq(guidesStore', 1, n) = guidesStore
                /\ gout'.resp.data = guidesStore'[n + 1]
                /\ guidesStore'[n + 1].createdAt = guidesStore'[n + 1].updatedAt
                /\ guidesStore'[n + 1].createdAt \in Times
                /\ guidesStore'[n + 1].name = input.name
                /\ guidesStore'[n + 1].bio = input.bio
                /\ guidesStore'[n + 1].pricing = input.pricing

\* C17 (as stated): createGuide answers 400 'Validation failed' with one
\* error per missing item and leaves the store as it was whenever name, bio
\* or the full-day price is missing from the body; otherwise it appends one
\* guide with createdAt = updatedAt and answers 201.
C17_RejectsMissingOnly == [][CreateOutcome(Missing)]_gvars

C17_Refused(input, item) == Missing(input, item) \/ Blank(input, item)

\* C17 (amended): createGuide answers 400 'Validation failed' with one
\* error per offending item and leaves the store as it was whenever name,
\* bio or the full-day price is missing from the body, empty or 0;
\* otherwise it appends one guide with createdAt = updatedAt, answers 201
\* and leaves the guides already stored as they were.
C17_RejectsMissingOrBlank == [][CreateOutcome(C17_Refused)]_gvars

\* A body with nothing missing but a full-day price of 0, answered 400
\* while the store holds a guide.
C17_Witness ==
    /\ gout.op = "createGuide" /\ gout.resp.status = 400
    /\ Len(guidesStore) >= 1
    /\ \A i \in 1..Len(RequiredItems) :
          ~Missing(gout.req.body, RequiredItems[i].field)
    /\ gout.req.body.pricing.fullDay = 0
    /\ Len(gout.resp.errors) = 1

\* C18: deleteGuide on a stored id removes that guide and keeps the others
\* in their order, and from then on the id is not found (getGuideById,
\* updateGuide and deleteGuide answer 404 for it) until a guide is created;
\* on an id that is not stored it answers 404 and the store stays as it was.
C18_Step ==
    /\ gout'.op = "deleteGuide" =>
          LET id == gout'.req.id
              index == findIndex(guidesStore, id)
          IN IF index = 0
             THEN /\ gout'.resp = sendError("Guide not found", 404)
                  /\ guidesStore' = guidesStore
             ELSE /\ gout'.resp.status = 200
                  /\ guidesStore' = splice(guidesStore, index)
                  /\ findIndex(guidesStore', id) = 0
    /\ (gout'.op \in {"getGuideById", "updateGuide", "deleteGuide"}
          /\ gout.op = "deleteGuide" /\ gout.resp.status = 200
          /\ gout'.req.id = gout.req.id)
          => gout'.resp = sendError("Guide not found", 404)

C18_DeletedStaysDeleted == [][C18_Step]_gvars

\* The guides of the store that match the requested specialization: all of
\* them when none is requested.
Matching(specialization) ==
    IF specialization = Absent THEN guidesStore
    ELSE SelectSeq(guidesStore,
                   LAMBDA g : /\ "specializations" \in DOMAIN g
                              /\ matches(g, specialization))

\* C19: getAllGuides answers page p of limit l with the guides at positions
\* (p-1)*l .. (p-1)*l + l - 1 of the matching guides in store order (none
\* past the end), and reports the number of matching guides as the total.
C19_PageOfMatching ==
    gout.op = "getAllGuides" =>
        LET all == Matching(gout.req.specialization)
            first == (gout.req.page - 1) * gout.req.limit
        IN /\ gout.resp.status = 200
           /\ gout.resp.success
           /\ gout.resp.data.pagination.total = Len(all)
           /\ Len(gout.resp.data.guides)
                 = IF first >= Len(all) THEN 0
                   ELSE IF first + gout.req.limit > Len(all)
                        THEN Len(all) - first
                        ELSE gout.req.limit
           /\ \A k \in 1..Len(gout.resp.data.guides) :
                 gout.resp.data.guides[k] = all[first + k]

====
